---- MODULE Spec2Model ----
(***************************************************************************)
(* Model of src/main.cpp: the BackupSystem (backupFile, workerThread and   *)
(* the destructor), the DatabaseManager catalog behind db_mutex, the       *)
(* simulated CloudProvider and the Encryption object.                      *)
(*                                                                         *)
(* Threads: the caller of backupFile (Main) and the upload workers.        *)
(* Byte counts and integer widths are scaled down: CHUNK_SIZE stands for   *)
(* the 10 MiB of the source, SizeBits for the 64 bits of size_t and        *)
(* IntBits for the 32 bits of int, NUM_UPLOAD_THREADS for the 4 workers.   *)
(* The scaled widths keep the order INT_MAX * CHUNK_SIZE < SIZE_MAX / 2    *)
(* of the source.                                                          *)
(***************************************************************************)
EXTENDS Integers, Sequences, FiniteSets, TLC

\* ------------------------------------------------------------ bounds
MaxFileSize == 3        \* largest file the concurrent specification draws
MaxBigFileSize == 17    \* file sizes the single-threaded chunking runs draw
MaxBackups == 2         \* backupFile calls made on one BackupSystem
MaxRand == 2            \* distinct values RAND_bytes can return

\* ------------------------------------------------------------ program constants
CHUNK_SIZE == 2         \* const size_t CHUNK_SIZE (scaled)
NUM_UPLOAD_THREADS == 2 \* const int NUM_UPLOAD_THREADS (scaled)
SizeBits == 6           \* width of size_t (scaled)
IntBits == 4            \* width of int (scaled)

SIZE_MOD == 2 ^ SizeBits
INT_MOD == 2 ^ IntBits
INT_MAX == (INT_MOD \div 2) - 1

\* providers, in the order the constructor pushes them
providers == << "GoogleDrive", "Dropbox", "OneDrive" >>

\* the files main() can hand to backupFile
PATHS == { "test_data.bin" }

\* what a file on disk holds: all zero bytes, or byte p = p mod 4
FILLS == { "zeros", "ramp" }

Main == 0
Workers == 1 .. NUM_UPLOAD_THREADS
Threads == {Main} \cup Workers
Free == -1

NoTask == [file_id |-> 0]
NoFrame == [path |-> "", file_size |-> 0, chunk_count |-> 0, key |-> 0, iv |-> 0,
            file_id |-> 0, i |-> 0, pos |-> 0, fill |-> ""]

VARIABLES
    files,          \* table files: sequence of rows, file_id = position
    chunks,         \* table chunks: sequence of rows, chunk_id = position
    blobs,          \* what the providers' directories hold: <<provider, filename>>
    upload_queue,   \* std::queue of upload tasks
    queue_mutex,    \* holder of queue_mutex, or Free
    db_mutex,       \* holder of db_mutex, or Free
    stop_workers,   \* bool stop_workers
    pc,             \* position of every thread
    bf,             \* locals of the running backupFile call
    task,           \* the task each worker dequeued
    stmt,           \* per thread: the table contents its prepared statement works on
    cerr,           \* chunks reported on std::cerr as failed: <<file_id, i>>
    backups,        \* backupFile calls made so far
    uploading       \* per chunk <<file_id, i>>: the times its task called upload

vars == << files, chunks, blobs, upload_queue, queue_mutex, db_mutex, stop_workers,
           pc, bf, task, stmt, cerr, backups, uploading >>

\* ------------------------------------------------------------ arithmetic
Min(a, b) == IF a < b THEN a ELSE b

\* conversion to size_t: modulo 2^SizeBits
ToSizeT(x) == x % SIZE_MOD

\* conversion of a size_t to int: modulo 2^IntBits, two's complement
ToInt(x) == LET m == x % INT_MOD IN IF m > INT_MAX THEN m - INT_MOD ELSE m

\* int chunk_count = (file_size + CHUNK_SIZE - 1) / CHUNK_SIZE;
ChunkCount(file_size) == ToInt(ToSizeT(file_size + CHUNK_SIZE - 1) \div CHUNK_SIZE)

\* size_t chunk_size = std::min(CHUNK_SIZE, file_size - (i * CHUNK_SIZE));
ChunkSize(file_size, i) == Min(CHUNK_SIZE, ToSizeT(file_size - ToSizeT(i * CHUNK_SIZE)))

\* byte p of a file
Byte(fill, p) == IF fill = "ramp" THEN p % 4 ELSE 0

\* file.read(chunk.data(), chunk_size) at stream position pos: the bytes read,
\* the rest of the zero-initialised vector left as it is
ReadChunk(fill, file_size, pos, n) ==
    [k \in 1 .. n |-> IF pos + k - 1 < file_size THEN Byte(fill, pos + k - 1) ELSE 0]

\* the stream position after that read
Advance(file_size, pos, n) == Min(file_size, pos + n)

\* Encryption::encrypt: AES-256-CBC of the plaintext under the object's key and iv;
\* the ciphertext is a function of exactly these three
encrypt(key, iv, plaintext) == [cipher |-> "aes-256-cbc", key |-> key, iv |-> iv, of |-> plaintext]

\* the modulus taken one short
SelectProvider_OffByOne(i) == providers[(ToSizeT(i) % (Len(providers) - 1)) + 1]

\* auto& provider = providers[i % providers.size()];
SelectProvider(i) == providers[(ToSizeT(i) % Len(providers)) + 1]

\* "file_" + to_string(file_id) + "_chunk_" + to_string(i) + ".enc"
RemoteFilename(file_id, i) == << "file_", file_id, "_chunk_", i, ".enc" >>

\* ------------------------------------------------------------ initial state
Init ==
    /\ files = << >>
    /\ chunks = << >>
    /\ blobs = {}
    /\ upload_queue = << >>
    /\ queue_mutex = Free
    /\ db_mutex = Free
    /\ stop_workers = FALSE
    /\ pc = [t \in Threads |-> IF t = Main THEN "idle" ELSE "check"]
    /\ bf = NoFrame
    /\ task = [w \in Workers |-> NoTask]
    /\ stmt = [t \in Threads |-> << >>]
    /\ cerr = {}
    /\ backups = 0
    /\ uploading = << >>

\* ------------------------------------------------------------ mutexes
\* std::lock_guard<std::mutex> lock(queue_mutex): blocks until the mutex is free
CanLockQueue == queue_mutex = Free

\* a catalog write that does not wait for db_mutex
CanLockDb_NoWait == TRUE

\* std::lock_guard<std::mutex> lock(db_mutex): blocks until the mutex is free
CanLockDb == db_mutex = Free

\* ------------------------------------------------------------ backupFile
\* lines 322-343: open the file, take its size, count the chunks, make the key and iv
BackupOpen(path, size, fill, key, iv) ==
    /\ pc[Main] = "idle"
    /\ backups < MaxBackups
    /\ backups' = backups + 1
    /\ bf' = [path |-> path, file_size |-> ToSizeT(size), chunk_count |-> ChunkCount(ToSizeT(size)),
              key |-> key, iv |-> iv, file_id |-> 0, i |-> 0, pos |-> 0, fill |-> fill]
    /\ pc' = [pc EXCEPT ![Main] = "insertFile"]
    /\ UNCHANGED << files, chunks, blobs, upload_queue, queue_mutex, db_mutex, stop_workers,
                    task, stmt, cerr, uploading >>

\* lines 326-329: the file cannot be opened; backupFile throws and main() unwinds
BackupOpenFails ==
    /\ pc[Main] = "idle"
    /\ backups < MaxBackups
    /\ backups' = backups + 1
    /\ pc' = [pc EXCEPT ![Main] = "dtor"]
    /\ UNCHANGED << files, chunks, blobs, upload_queue, queue_mutex, db_mutex, stop_workers,
                    bf, task, stmt, cerr, uploading >>

\* insertFile, line 138: take db_mutex; line 152: prepare the INSERT
InsertFileLock ==
    /\ pc[Main] = "insertFile"
    /\ CanLockDb
    /\ db_mutex' = Main
    /\ stmt' = [stmt EXCEPT ![Main] = files]
    /\ pc' = [pc EXCEPT ![Main] = "insertFile_step"]
    /\ UNCHANGED << files, chunks, blobs, upload_queue, queue_mutex, stop_workers,
                    bf, task, cerr, backups, uploading >>

\* an insertFile that returns the rowid from before its INSERT
InsertFileStep_StaleRowid ==
    /\ pc[Main] = "insertFile_step"
    /\ files' = Append(stmt[Main], [original_path |-> bf.path, file_size |-> bf.file_size,
                                   chunk_count |-> bf.chunk_count, encryption_key |-> bf.key,
                                   encryption_iv |-> bf.iv, status |-> "pending"])
    /\ bf' = [bf EXCEPT !.file_id = Len(stmt[Main])]
    /\ stmt' = [stmt EXCEPT ![Main] = << >>]
    /\ db_mutex' = IF db_mutex = Main THEN Free ELSE db_mutex
    /\ pc' = [pc EXCEPT ![Main] = "loop"]
    /\ UNCHANGED << chunks, blobs, upload_queue, queue_mutex, stop_workers, task, cerr, backups, uploading >>

\* insertFile, lines 160-164: the row is written with status 'pending', the new
\* rowid is the file_id, the lock is released
InsertFileStep ==
    /\ pc[Main] = "insertFile_step"
    /\ files' = Append(stmt[Main], [original_path |-> bf.path, file_size |-> bf.file_size,
                                   chunk_count |-> bf.chunk_count, encryption_key |-> bf.key,
                                   encryption_iv |-> bf.iv, status |-> "pending"])
    /\ bf' = [bf EXCEPT !.file_id = Len(files')]
    /\ stmt' = [stmt EXCEPT ![Main] = << >>]
    /\ db_mutex' = IF db_mutex = Main THEN Free ELSE db_mutex
    /\ pc' = [pc EXCEPT ![Main] = "loop"]
    /\ UNCHANGED << chunks, blobs, upload_queue, queue_mutex, stop_workers, task, cerr, backups, uploading >>

\* the task the lambda of lines 368-380 captures for chunk i
MakeTask(f, i) ==
    LET chunk_size == ChunkSize(f.file_size, i)
        chunk == ReadChunk(f.fill, f.file_size, f.pos, chunk_size)
    IN  [file_id |-> f.file_id, i |-> i, chunk_size |-> chunk_size, offset |-> f.pos,
         encrypted |-> encrypt(f.key, f.iv, chunk),
         provider |-> SelectProvider(i),
         remote_filename |-> RemoteFilename(f.file_id, i)]

\* lines 349-382, one iteration: read, encrypt, select the provider, push the task
SubmitChunk ==
    /\ pc[Main] = "loop"
    /\ bf.i < bf.chunk_count
    /\ CanLockQueue
    /\ upload_queue' = Append(upload_queue, MakeTask(bf, bf.i))
    /\ bf' = [bf EXCEPT !.i = bf.i + 1,
                        !.pos = Advance(bf.file_size, bf.pos, ChunkSize(bf.file_size, bf.i))]
    /\ UNCHANGED << files, chunks, blobs, queue_mutex, db_mutex, stop_workers,
                    pc, task, stmt, cerr, backups, uploading >>

\* lines 351-368: an allocation of the iteration (the chunk, its ciphertext, the
\* copy the lambda captures) throws std::bad_alloc; backupFile is left by the
\* exception with the tasks pushed so far in the queue, and main() unwinds
BackupThrows ==
    /\ pc[Main] = "loop"
    /\ bf.i < bf.chunk_count
    /\ bf' = NoFrame
    /\ pc' = [pc EXCEPT ![Main] = "dtor"]
    /\ UNCHANGED << files, chunks, blobs, upload_queue, queue_mutex, db_mutex, stop_workers,
                    task, stmt, cerr, backups, uploading >>

\* line 349 false, line 384: the loop ends, the file is closed
LoopExit ==
    /\ pc[Main] = "loop"
    /\ ~ (bf.i < bf.chunk_count)
    /\ pc' = [pc EXCEPT ![Main] = "wait"]
    /\ UNCHANGED << files, chunks, blobs, upload_queue, queue_mutex, db_mutex, stop_workers,
                    bf, task, stmt, cerr, backups, uploading >>

\* lines 387-391: take queue_mutex, the queue is empty: break (the guard is released)
WaitBreak ==
    /\ pc[Main] = "wait"
    /\ CanLockQueue
    /\ upload_queue = << >>
    /\ pc' = [pc EXCEPT ![Main] = "finalize"]
    /\ UNCHANGED << files, chunks, blobs, upload_queue, queue_mutex, db_mutex, stop_workers,
                    bf, task, stmt, cerr, backups, uploading >>

\* lines 387-392: take queue_mutex, the queue is not empty: sleep holding the lock
WaitSleep ==
    /\ pc[Main] = "wait"
    /\ CanLockQueue
    /\ upload_queue # << >>
    /\ queue_mutex' = Main
    /\ pc' = [pc EXCEPT ![Main] = "wait_sleep"]
    /\ UNCHANGED << files, chunks, blobs, upload_queue, db_mutex, stop_workers,
                    bf, task, stmt, cerr, backups, uploading >>

\* line 393: the sleep is over, the guard goes out of scope, the loop starts again
WaitWake ==
    /\ pc[Main] = "wait_sleep"
    /\ queue_mutex' = IF queue_mutex = Main THEN Free ELSE queue_mutex
    /\ pc' = [pc EXCEPT ![Main] = "wait"]
    /\ UNCHANGED << files, chunks, blobs, upload_queue, db_mutex, stop_workers,
                    bf, task, stmt, cerr, backups, uploading >>

\* line 395, updateFileStatus line 192: take db_mutex; line 197: prepare the UPDATE
FinalizeLock ==
    /\ pc[Main] = "finalize"
    /\ CanLockDb
    /\ db_mutex' = Main
    /\ stmt' = [stmt EXCEPT ![Main] = files]
    /\ pc' = [pc EXCEPT ![Main] = "finalize_step"]
    /\ UNCHANGED << files, chunks, blobs, upload_queue, queue_mutex, stop_workers,
                    bf, task, cerr, backups, uploading >>

\* the status line 395 passes to updateFileStatus
FinalStatus(f) == "completed"

\* updateFileStatus, lines 201-203: UPDATE files SET status = ? WHERE file_id = ?
FinalizeStep ==
    /\ pc[Main] = "finalize_step"
    /\ files' = [k \in 1 .. Len(stmt[Main]) |->
                    IF k = bf.file_id
                    THEN [stmt[Main][k] EXCEPT !.status = FinalStatus(bf)]
                    ELSE stmt[Main][k]]
    /\ stmt' = [stmt EXCEPT ![Main] = << >>]
    /\ db_mutex' = IF db_mutex = Main THEN Free ELSE db_mutex
    /\ bf' = NoFrame
    /\ pc' = [pc EXCEPT ![Main] = "idle"]
    /\ UNCHANGED << chunks, blobs, upload_queue, queue_mutex, stop_workers, task, cerr, backups, uploading >>

\* ------------------------------------------------------------ workerThread
\* line 293: while (!stop_workers), the flag is clear
WorkerLoop(w) ==
    /\ pc[w] = "check"
    /\ ~ stop_workers
    /\ pc' = [pc EXCEPT ![w] = "dequeue"]
    /\ UNCHANGED << files, chunks, blobs, upload_queue, queue_mutex, db_mutex, stop_workers,
                    bf, task, stmt, cerr, backups, uploading >>

\* line 293: stop_workers is a plain bool written by the destructor without
\* synchronisation; the read races with the write and may still give false
WorkerLoopStale(w) ==
    /\ pc[w] = "check"
    /\ stop_workers
    /\ pc' = [pc EXCEPT ![w] = "dequeue"]
    /\ UNCHANGED << files, chunks, blobs, upload_queue, queue_mutex, db_mutex, stop_workers,
                    bf, task, stmt, cerr, backups, uploading >>

\* a worker that is stopped wherever it is once the flag is set
WorkerExit_MidTask(w) ==
    /\ pc[w] \in { "check", "run", "insertChunk" }
    /\ stop_workers
    /\ pc' = [pc EXCEPT ![w] = "exited"]
    /\ UNCHANGED << files, chunks, blobs, upload_queue, queue_mutex, db_mutex, stop_workers,
                    bf, task, stmt, cerr, backups, uploading >>

\* line 293: the flag is set, the thread function returns
WorkerExit(w) ==
    /\ pc[w] = "check"
    /\ stop_workers
    /\ pc' = [pc EXCEPT ![w] = "exited"]
    /\ UNCHANGED << files, chunks, blobs, upload_queue, queue_mutex, db_mutex, stop_workers,
                    bf, task, stmt, cerr, backups, uploading >>

\* a dequeue that reads the front task and leaves it in the queue
WorkerTake_NoPop(w) ==
    /\ pc[w] = "dequeue"
    /\ CanLockQueue
    /\ upload_queue # << >>
    /\ task' = [task EXCEPT ![w] = Head(upload_queue)]
    /\ pc' = [pc EXCEPT ![w] = "run"]
    /\ UNCHANGED << files, chunks, blobs, upload_queue, queue_mutex, db_mutex, stop_workers,
                    bf, stmt, cerr, backups, uploading >>

\* lines 295-301: under queue_mutex, take the front task
WorkerTake(w) ==
    /\ pc[w] = "dequeue"
    /\ CanLockQueue
    /\ upload_queue # << >>
    /\ task' = [task EXCEPT ![w] = Head(upload_queue)]
    /\ upload_queue' = Tail(upload_queue)
    /\ pc' = [pc EXCEPT ![w] = "run"]
    /\ UNCHANGED << files, chunks, blobs, queue_mutex, db_mutex, stop_workers,
                    bf, stmt, cerr, backups, uploading >>

\* lines 295-307: the queue is empty, sleep 100 ms and test the flag again
WorkerIdle(w) ==
    /\ pc[w] = "dequeue"
    /\ CanLockQueue
    /\ upload_queue = << >>
    /\ pc' = [pc EXCEPT ![w] = "check"]
    /\ UNCHANGED << files, chunks, blobs, upload_queue, queue_mutex, db_mutex, stop_workers,
                    bf, task, stmt, cerr, backups, uploading >>

\* one more call of upload counted for chunk c (the task's "Uploading chunk" line)
Called(log, c) ==
    [d \in (DOMAIN log) \cup { c } |->
        IF d = c THEN (IF c \in DOMAIN log THEN log[c] ELSE 0) + 1 ELSE log[d]]

\* CloudProvider::upload, lines 220-227: the file is written, true is returned
UploadOk(w) ==
    /\ pc[w] = "run"
    /\ uploading' = Called(uploading, << task[w].file_id, task[w].i >>)
    /\ blobs' = blobs \cup { << task[w].provider, task[w].remote_filename, task[w].encrypted >> }
    /\ pc' = [pc EXCEPT ![w] = "insertChunk"]
    /\ UNCHANGED << files, chunks, upload_queue, queue_mutex, db_mutex, stop_workers,
                    bf, task, stmt, cerr, backups >>

\* a task that records the chunk although upload returned false
UploadFails_StillRecords(w) ==
    /\ pc[w] = "run"
    /\ uploading' = Called(uploading, << task[w].file_id, task[w].i >>)
    /\ cerr' = cerr \cup { << task[w].file_id, task[w].i >> }
    /\ pc' = [pc EXCEPT ![w] = "insertChunk"]
    /\ UNCHANGED << files, chunks, blobs, upload_queue, queue_mutex, db_mutex, stop_workers,
                    bf, task, stmt, backups >>

\* CloudProvider::upload, lines 228-230: an exception is caught, false is returned;
\* the task reports the chunk on std::cerr (lines 377-379) and ends
UploadFails(w) ==
    /\ pc[w] = "run"
    /\ uploading' = Called(uploading, << task[w].file_id, task[w].i >>)
    /\ cerr' = cerr \cup { << task[w].file_id, task[w].i >> }
    /\ task' = [task EXCEPT ![w] = NoTask]
    /\ pc' = [pc EXCEPT ![w] = "check"]
    /\ UNCHANGED << files, chunks, blobs, upload_queue, queue_mutex, db_mutex, stop_workers,
                    bf, stmt, backups >>

\* insertChunk, line 170: take db_mutex; line 179: prepare the INSERT
InsertChunkLock(w) ==
    /\ pc[w] = "insertChunk"
    /\ CanLockDb
    /\ db_mutex' = w
    /\ stmt' = [stmt EXCEPT ![w] = chunks]
    /\ pc' = [pc EXCEPT ![w] = "insertChunk_step"]
    /\ UNCHANGED << files, chunks, blobs, upload_queue, queue_mutex, stop_workers,
                    bf, task, cerr, backups, uploading >>

\* a row numbered by the order of arrival instead of the task's index
ChunkRow_ByArrival(t) ==
    [file_id |-> t.file_id,
     chunk_index |-> Cardinality({ k \in 1 .. Len(chunks) : chunks[k].file_id = t.file_id }),
     chunk_size |-> t.chunk_size,
     cloud_provider |-> t.provider, remote_path |-> t.remote_filename,
     upload_status |-> "uploaded"]

\* the row insertChunk binds, lines 173-185
ChunkRow(t) ==
    [file_id |-> t.file_id, chunk_index |-> t.i, chunk_size |-> t.chunk_size,
     cloud_provider |-> t.provider, remote_path |-> t.remote_filename,
     upload_status |-> "uploaded"]

\* insertChunk, lines 187-189: the row is written, the lock is released, the task ends
InsertChunkStep(w) ==
    /\ pc[w] = "insertChunk_step"
    /\ chunks' = Append(stmt[w], ChunkRow(task[w]))
    /\ stmt' = [stmt EXCEPT ![w] = << >>]
    /\ db_mutex' = IF db_mutex = w THEN Free ELSE db_mutex
    /\ task' = [task EXCEPT ![w] = NoTask]
    /\ pc' = [pc EXCEPT ![w] = "check"]
    /\ UNCHANGED << files, blobs, upload_queue, queue_mutex, stop_workers, bf, cerr, backups, uploading >>

\* ------------------------------------------------------------ ~BackupSystem
\* line 284: stop_workers = true
Destructor ==
    /\ pc[Main] \in { "idle", "dtor" }
    /\ stop_workers' = TRUE
    /\ pc' = [pc EXCEPT ![Main] = "join"]
    /\ UNCHANGED << files, chunks, blobs, upload_queue, queue_mutex, db_mutex,
                    bf, task, stmt, cerr, backups, uploading >>

\* a destructor that returns without waiting for the workers
Join_NoWait ==
    /\ pc[Main] = "join"
    /\ pc' = [pc EXCEPT ![Main] = "done"]
    /\ UNCHANGED << files, chunks, blobs, upload_queue, queue_mutex, db_mutex, stop_workers,
                    bf, task, stmt, cerr, backups, uploading >>

\* lines 285-289: every worker thread is joined
Join ==
    /\ pc[Main] = "join"
    /\ \A w \in Workers : pc[w] = "exited"
    /\ pc' = [pc EXCEPT ![Main] = "done"]
    /\ UNCHANGED << files, chunks, blobs, upload_queue, queue_mutex, db_mutex, stop_workers,
                    bf, task, stmt, cerr, backups, uploading >>

\* ------------------------------------------------------------ specifications
RandBytes == 1 .. MaxRand

Backup(sizes, fills, rand) ==
    \/ \E path \in PATHS, size \in sizes, fill \in fills, key \in rand, iv \in rand :
          BackupOpen(path, size, fill, key, iv)
    \/ BackupOpenFails
    \/ InsertFileLock
    \/ InsertFileStep
    \/ SubmitChunk
    \/ BackupThrows
    \/ LoopExit

Finish ==
    \/ WaitBreak
    \/ WaitSleep
    \/ WaitWake
    \/ FinalizeLock
    \/ FinalizeStep
    \/ Destructor
    \/ Join

Worker(w) ==
    \/ WorkerLoop(w)
    \/ WorkerLoopStale(w)
    \/ WorkerExit(w)
    \/ WorkerTake(w)
    \/ WorkerIdle(w)
    \/ UploadOk(w)
    \/ UploadFails(w)
    \/ InsertChunkLock(w)
    \/ InsertChunkStep(w)

\* the files the concurrent specification backs up: empty, one full chunk, the largest
FileSizes == { 0, CHUNK_SIZE, MaxFileSize }

Next ==
    \/ Backup(FileSizes, { "ramp" }, { MaxRand })
    \/ Finish
    \/ \E w \in Workers : Worker(w)

\* the BackupSystem with its workers running
Spec == Init /\ [][Next]_vars

\* the thread that calls backupFile and destroys the BackupSystem
MainThread == Backup(FileSizes, { "ramp" }, { MaxRand }) \/ Finish

\* every thread that can take a step eventually takes one: weak fairness of the
\* caller and of each worker, which is what the operating system's scheduler gives
\* (std::mutex is not a fair lock: a waiter is not promised the mutex)
Fairness == WF_vars(MainThread) /\ \A w \in Workers : WF_vars(Worker(w))

SpecFair == Spec /\ Fairness

\* The process ends (killed, or main() returned) and the program is started again:
\* the catalog file (sqlite3_open of the same path, CREATE TABLE IF NOT EXISTS) and
\* the providers' directories are on disk and survive; the queue, the mutexes, the
\* threads and backupFile's frame are gone, and the constructor starts new workers.
Restart ==
    /\ backups < MaxBackups
    /\ pc[Main] # "idle"
    /\ upload_queue' = << >>
    /\ queue_mutex' = Free
    /\ db_mutex' = Free
    /\ stop_workers' = FALSE
    /\ pc' = [t \in Threads |-> IF t = Main THEN "idle" ELSE "check"]
    /\ bf' = NoFrame
    /\ task' = [w \in Workers |-> NoTask]
    /\ stmt' = [t \in Threads |-> << >>]
    /\ UNCHANGED << files, chunks, blobs, cerr, backups, uploading >>

NextResume == Next \/ Restart

\* the program run, stopped at any point, and run again on the same catalog
SpecResume == Init /\ [][NextResume]_vars

\* backupFile up to the end of its chunk loop, before any worker has run
NextChunking == Backup(0 .. MaxBigFileSize, FILLS, RandBytes)

SpecChunking == Init /\ [][NextChunking]_vars

\* ------------------------------------------------------------ vocabulary of the claims
FileIds == 1 .. Len(files)

\* the rows of table chunks that belong to file f
RowsOf(f) == { k \in 1 .. Len(chunks) : chunks[k].file_id = f }

\* chunk i of file f has an 'uploaded' row
Uploaded(f, i) ==
    \E k \in RowsOf(f) : chunks[k].chunk_index = i /\ chunks[k].upload_status = "uploaded"

\* the tasks of file f still in the queue
QueuedOf(f) == { k \in 1 .. Len(upload_queue) : upload_queue[k].file_id = f }

\* the workers executing a task of file f
RunningOf(f) == { w \in Workers : task[w] # NoTask /\ task[w].file_id = f }

\* backupFile is past its wait loop for the file it is backing up
WaitReturned == pc[Main] \in { "finalize", "finalize_step" }

\* the backupFile call that created file f has written the final status
Finalized(f) == f \in FileIds /\ bf.file_id # f /\ files[f].status # "pending"

\* ceil(S / C), in unbounded arithmetic
Ceil(S, C) == (S + C - 1) \div C

\* ------------------------------------------------------------ C1
\* C1: completion barrier.  When the wait at the end of backupFile has returned,
\* no task of the file is still queued and none is still executing inside a worker.
C1_CompletionBarrier ==
    WaitReturned => QueuedOf(bf.file_id) = {} /\ RunningOf(bf.file_id) = {}

\* ------------------------------------------------------------ C2
\* C2: a file with status 'completed' has an 'uploaded' row for every chunk index
\* in 0 .. chunk_count - 1.
C2_CompletedHasAllChunks ==
    \A f \in FileIds :
        files[f].status = "completed" =>
            \A i \in 0 .. files[f].chunk_count - 1 : Uploaded(f, i)

\* ------------------------------------------------------------ C3
\* C3: finalization on failure.  If the upload of a chunk of a file failed, the
\* status written after the completion wait is 'failed', never 'completed'.
C3_FailedUploadFailsFile ==
    \A f \in FileIds :
        (Finalized(f) /\ \E c \in cerr : c[1] = f) => files[f].status = "failed"

\* ------------------------------------------------------------ C4
\* C4: the status of a file only moves pending -> uploading -> completed or failed;
\* no stage is skipped and a terminal status is never left.
C4_StatusForward ==
    [][\A f \in FileIds :
          files'[f].status # files[f].status =>
              << files[f].status, files'[f].status >> \in
                  { << "pending", "uploading" >>, << "uploading", "completed" >>,
                    << "uploading", "failed" >> }]_vars

\* ------------------------------------------------------------ C5
\* the capacity the claim speaks of: the code configures none, the pool size is
\* taken for it (any number below the chunk count of a file behaves the same)
QueueCapacity == NUM_UPLOAD_THREADS

\* C5: backpressure.  The number of queued tasks never exceeds the capacity: a
\* submit on a full queue waits for a worker to take a task.
C5_QueueBounded == Len(upload_queue) <= QueueCapacity

\* ------------------------------------------------------------ C6
\* C6: no nonce reuse.  Two distinct chunks of one file are encrypted under
\* different IVs, so equal plaintexts give different ciphertexts.
C6_NoNonceReuse ==
    \A a, b \in 1 .. Len(upload_queue) :
        (a # b /\ upload_queue[a].file_id = upload_queue[b].file_id) =>
            /\ upload_queue[a].encrypted.iv # upload_queue[b].encrypted.iv
            /\ upload_queue[a].encrypted # upload_queue[b].encrypted

\* ------------------------------------------------------------ C7
\* the number of queued tasks bound to provider p
AssignedTo(p) ==
    Cardinality({ k \in 1 .. Len(upload_queue) : upload_queue[k].provider = providers[p] })

\* C7: round-robin.  The task of chunk i is bound to providers[i mod N]; once all K
\* chunks of a file are submitted every provider has K div N or K div N + 1 of them.
C7_RoundRobin ==
    LET N == Len(providers)
        K == Len(upload_queue)
    IN  /\ \A k \in 1 .. K :
              upload_queue[k].provider = providers[(upload_queue[k].i % N) + 1]
        /\ pc[Main] = "wait" =>
              \A p \in 1 .. N : AssignedTo(p) \in { K \div N, (K \div N) + 1 }

\* a file of five chunks is submitted: two providers hold two chunks, one holds one
C7_Witness ==
    /\ pc[Main] = "wait"
    /\ Len(upload_queue) = 5
    /\ AssignedTo(1) = 2 /\ AssignedTo(2) = 2 /\ AssignedTo(3) = 1

\* ------------------------------------------------------------ C8
RECURSIVE SumSizes(_)
SumSizes(q) == IF q = << >> THEN 0 ELSE Head(q).chunk_size + SumSizes(Tail(q))

\* C8: chunking covers the file exactly once.  For a file of S bytes there are
\* ceil(S / C) chunks, chunk i covers [i*C, min((i+1)*C, S)), its size is in 1 .. C,
\* and the sizes sum to S.
C8_ChunkingCoversFile ==
    pc[Main] = "wait" =>
        LET S == bf.file_size
            K == Ceil(S, CHUNK_SIZE)
        IN  /\ bf.chunk_count = K
            /\ Len(upload_queue) = K
            /\ \A k \in 1 .. Len(upload_queue) :
                  LET t == upload_queue[k]
                  IN  /\ t.i = k - 1
                      /\ t.offset = t.i * CHUNK_SIZE
                      /\ t.chunk_size = Min(CHUNK_SIZE, S - t.i * CHUNK_SIZE)
                      /\ t.chunk_size \in 1 .. CHUNK_SIZE
            /\ SumSizes(upload_queue) = S

\* ------------------------------------------------------------ C9
\* C9: a row of table chunks exists only for a chunk whose upload returned true: it
\* has status 'uploaded', its blob is at its provider, the chunk was not reported
\* failed, and its task is no longer in the queue.
C9_RowOnlyAfterUpload ==
    \A k \in 1 .. Len(chunks) :
        LET r == chunks[k]
        IN  /\ r.upload_status = "uploaded"
            /\ \E b \in blobs : b[1] = r.cloud_provider /\ b[2] = r.remote_path
            /\ << r.file_id, r.chunk_index >> \notin cerr
            /\ \A q \in 1 .. Len(upload_queue) :
                  ~ (upload_queue[q].file_id = r.file_id /\ upload_queue[q].i = r.chunk_index)

\* one chunk of a file is recorded and another chunk's upload failed and left no row
C9_Witness ==
    \E f \in FileIds :
        /\ RowsOf(f) # {}
        /\ \E c \in cerr : c[1] = f /\ ~ Uploaded(f, c[2])

\* ------------------------------------------------------------ C10
\* the threads between the lock and the unlock of a catalog write
InCatalog == { t \in Threads : pc[t] \in { "insertFile_step", "insertChunk_step", "finalize_step" } }

\* C10: catalog writes exclude each other and lose no row.  At most one thread is
\* inside insertFile, insertChunk or updateFileStatus, and every chunk whose upload
\* succeeded and whose task has ended has its row, with the task's values.
C10_CatalogSerialized ==
    /\ Cardinality(InCatalog) <= 1
    /\ \A b \in blobs :
          \/ \E w \in Workers : task[w] # NoTask /\ task[w].remote_filename = b[2]
          \/ \E k \in 1 .. Len(chunks) :
                /\ chunks[k].cloud_provider = b[1]
                /\ chunks[k].remote_path = b[2]
                /\ chunks[k].remote_path = RemoteFilename(chunks[k].file_id, chunks[k].chunk_index)
                /\ chunks[k].upload_status = "uploaded"

\* two workers record different chunks of one file: one is inside insertChunk, the
\* other waits for db_mutex, and a row of that file is already there
C10_Witness ==
    \E w1, w2 \in Workers :
        /\ pc[w1] = "insertChunk_step"
        /\ pc[w2] = "insertChunk"
        /\ task[w1].file_id = task[w2].file_id
        /\ task[w1].i # task[w2].i

\* ------------------------------------------------------------ C11
\* the places a chunk c = <<file_id, i>> can be in
QueuedCount(c) ==
    Cardinality({ k \in 1 .. Len(upload_queue) :
                    upload_queue[k].file_id = c[1] /\ upload_queue[k].i = c[2] })

RunCount(c) ==
    Cardinality({ w \in Workers : task[w] # NoTask /\ task[w].file_id = c[1] /\ task[w].i = c[2] })

UploadCalls(c) == IF c \in DOMAIN uploading THEN uploading[c] ELSE 0

\* the chunk indices backupFile has pushed so far for file f
Submitted(f) ==
    IF f = bf.file_id THEN 0 .. bf.i - 1
    ELSE IF files[f].status = "completed" THEN 0 .. files[f].chunk_count - 1
    ELSE { i \in 0 .. files[f].chunk_count - 1 :
             QueuedCount(<< f, i >>) + RunCount(<< f, i >>) + UploadCalls(<< f, i >>) > 0 }

\* C11: every chunk index of a file is submitted exactly once, every queued task is
\* dequeued by exactly one worker, and no two workers execute the same
\* (file_id, chunk_index) at the same time.
C11_OneTaskPerChunk ==
    \A f \in FileIds : \A i \in 0 .. files[f].chunk_count - 1 :
        LET c == << f, i >>
        IN  /\ QueuedCount(c) + RunCount(c) <= 1
            /\ UploadCalls(c) <= 1
            /\ QueuedCount(c) = 1 => UploadCalls(c) = 0
            /\ i \in Submitted(f) =>
                  QueuedCount(c) + RunCount(c) = 1 \/ UploadCalls(c) = 1
            /\ i \notin Submitted(f) =>
                  QueuedCount(c) + RunCount(c) + UploadCalls(c) = 0

\* both workers are inside upload, each with a different chunk of the same file
C11_Witness ==
    \E w1, w2 \in Workers :
        /\ w1 # w2
        /\ pc[w1] = "run" /\ pc[w2] = "run"
        /\ task[w1].file_id = task[w2].file_id
        /\ task[w1].i # task[w2].i

\* ------------------------------------------------------------ C12
\* C12: retry policy.  A chunk is given up (reported failed) only after its upload
\* was retried, that is after more than one call of upload for it.
C12_FailedOnlyAfterRetry == \A c \in cerr : UploadCalls(c) > 1

\* ------------------------------------------------------------ C13
\* chunk blob b has its row in table chunks
Recorded(b) ==
    \E k \in 1 .. Len(chunks) : chunks[k].cloud_provider = b[1] /\ chunks[k].remote_path = b[2]

\* C13: cooperative cancellation.  A worker leaves its loop only between tasks: an
\* exited worker holds no task, and a chunk that is at its provider has its row or
\* is still in the hands of a running worker; after the join every blob has its row.
C13_StopOnlyBetweenTasks ==
    /\ \A w \in Workers : pc[w] = "exited" => task[w] = NoTask
    /\ \A b \in blobs :
          \/ Recorded(b)
          \/ \E w \in Workers :
                /\ pc[w] \in { "insertChunk", "insertChunk_step" }
                /\ task[w].remote_filename = b[2]
    /\ pc[Main] = "done" => \A b \in blobs : Recorded(b)

\* shutdown is signalled while a worker has uploaded a chunk and not yet recorded it
C13_Witness ==
    /\ stop_workers
    /\ \E w \in Workers : pc[w] = "insertChunk" /\ ~ Recorded(<< task[w].provider, task[w].remote_filename >>)

\* ------------------------------------------------------------ C14
\* C14: shutdown drains and terminates.  When the destructor has joined the
\* workers, every worker has left its loop and no task is left in the queue: the
\* tasks queued at shutdown were executed before the workers stopped.
C14_ShutdownDrains ==
    pc[Main] = "done" =>
        /\ \A w \in Workers : pc[w] = "exited"
        /\ upload_queue = << >>

\* ------------------------------------------------------------ C19
\* C19: backupFile terminates.  Under weak fairness of each thread the wait loop
\* eventually sees the empty queue and is left.
C19_WaitTerminates == (pc[Main] = "wait") ~> (pc[Main] \notin { "wait", "wait_sleep" })

\* ------------------------------------------------------------ C20
\* C20: no submitted task is lost.  Once the destructor has joined the workers,
\* every chunk of every file whose backupFile call returned was executed exactly
\* once and to the end: it has its row, or its upload was reported failed.
C20_NoTaskLost ==
    pc[Main] = "done" =>
        \A f \in FileIds :
            files[f].status = "completed" =>
                \A i \in 0 .. files[f].chunk_count - 1 :
                    LET c == << f, i >>
                    IN  /\ UploadCalls(c) = 1
                        /\ QueuedCount(c) = 0 /\ RunCount(c) = 0
                        /\ Uploaded(f, i) \/ c \in cerr
                        /\ Cardinality({ k \in RowsOf(f) : chunks[k].chunk_index = i }) <= 1

\* the workers are joined and a two-chunk file whose uploads all succeeded has
\* both of its rows
C20_Witness ==
    /\ pc[Main] = "done"
    /\ \E f \in FileIds :
          /\ files[f].status = "completed"
          /\ files[f].chunk_count = 2
          /\ \A i \in 0 .. 1 : Uploaded(f, i)

\* ------------------------------------------------------------ C15
\* an earlier backup of file f is over and left some, not all, of its chunks uploaded
Interrupted(f) ==
    /\ f # bf.file_id
    /\ QueuedOf(f) = {} /\ RunningOf(f) = {}
    /\ RowsOf(f) # {}
    /\ \E i \in 0 .. files[f].chunk_count - 1 : ~ Uploaded(f, i)

\* C15: resumability.  A backup run again for a file whose earlier backup was
\* interrupted reuses that file_id (no second file row for the path) and submits no
\* task for a chunk index that already has an 'uploaded' row.
C15_ResumeSkipsUploaded ==
    \A f \in FileIds :
        Interrupted(f) =>
            /\ \A g \in FileIds : (g > f /\ files[g].original_path = files[f].original_path) => FALSE
            /\ \A q \in 1 .. Len(upload_queue) :
                  (/\ upload_queue[q].file_id \in FileIds
                   /\ files[upload_queue[q].file_id].original_path = files[f].original_path) =>
                      ~ Uploaded(f, upload_queue[q].i)

\* ------------------------------------------------------------ C17
\* C17: recorded metadata does not depend on upload order.  Every row carries the
\* index i of its chunk, the plaintext size of slice i, the name of
\* providers[i mod N] and the remote key built from (file_id, i); i is in
\* [0, chunk_count) and no two rows share (file_id, chunk_index).
C17_RowMetadata ==
    \A k \in 1 .. Len(chunks) :
        LET r == chunks[k]
            i == r.chunk_index
        IN  /\ r.file_id \in FileIds
            /\ i \in 0 .. files[r.file_id].chunk_count - 1
            /\ r.chunk_size = Min(CHUNK_SIZE, files[r.file_id].file_size - i * CHUNK_SIZE)
            /\ r.cloud_provider = providers[(i % Len(providers)) + 1]
            /\ r.remote_path = << "file_", r.file_id, "_chunk_", i, ".enc" >>
            /\ \E b \in blobs :
                  /\ b[1] = r.cloud_provider /\ b[2] = r.remote_path
                  /\ Len(b[3].of) = r.chunk_size
            /\ \A j \in 1 .. Len(chunks) :
                  (chunks[j].file_id = r.file_id /\ chunks[j].chunk_index = i) => j = k

\* the rows of a file were written out of index order: chunk 1 before chunk 0
C17_Witness ==
    \E k1, k2 \in 1 .. Len(chunks) :
        /\ k1 < k2
        /\ chunks[k1].file_id = chunks[k2].file_id
        /\ chunks[k1].chunk_index > chunks[k2].chunk_index

\* ------------------------------------------------------------ C18
\* the tasks in the queue or in a worker
LiveTasks == { upload_queue[k] : k \in 1 .. Len(upload_queue) } \cup
             { task[w] : w \in { v \in Workers : task[v] # NoTask } }

====
